---- MODULE Spec2Model ----
(***************************************************************************)
(* Fire VFX rig plugin (src/blender_fire_vfx.py): the settings record and  *)
(* its presets, the rig builder, the simulation configurator, the shader   *)
(* builder and the bake controller, as operations on the host document.    *)
(*                                                                         *)
(* Numbers: a float is held in thousandths (0.25 is 250, 18.0 is 18000),   *)
(* an IntProperty value as it is (resolution_max 80 is 80); a vector is a  *)
(* tuple of such numbers.                                                  *)
(***************************************************************************)
EXTENDS Integers, Sequences, FiniteSets, TLC

VARIABLES
  settings,     \* scene.fire_vfx_settings: field name -> value
  host,         \* the fields this host version lacks and the writes it rejects
  last,         \* the last operation invoked, what it returned and reported
  edits,        \* manual edits made so far
  objects,      \* bpy.data.objects
  collections,  \* bpy.data.collections
  materials,    \* bpy.data.materials: name -> node tree
  active,       \* the view layer's active object (its name)
  selected,     \* the names of the selected objects
  baked,        \* whether the host holds a baked simulation cache
  ramp          \* a color ramp handed to the reconciliation on its own

(***************************************************************************)
(* Names (src lines 28-31).                                                *)
(***************************************************************************)
COLLECTION_NAME == "FireVFX"
DOMAIN_NAME == "FireVFX_Domain"
EMITTER_NAME == "FireVFX_Emitter"
MATERIAL_NAME == "FireVFX_Volume"

None == "None"

(***************************************************************************)
(* Presets (src lines 296-416): each dict as its items in insertion order. *)
(***************************************************************************)
BASE_PRESET ==
  <<
    <<"domain_size", <<2000, 2000, 3000>>>>,
    <<"emitter_scale", <<70, 70, 250>>>>,
    <<"resolution_max", 96>>,
    <<"time_scale", 1000>>,
    <<"vorticity", 700>>,
    <<"use_adaptive_domain", TRUE>>,
    <<"adaptive_margin", 4>>,
    <<"adaptive_additional_res", 0>>,
    <<"use_noise", FALSE>>,
    <<"noise_strength", 1000>>,
    <<"noise_scale", 2500>>,
    <<"use_dissolve_smoke", FALSE>>,
    <<"dissolve_speed", 30>>,
    <<"burning_rate", 1200>>,
    <<"flame_smoke", 180>>,
    <<"flow_density", 1000>>,
    <<"flow_temperature", 1250>>,
    <<"flow_fuel", 1150>>,
    <<"use_initial_velocity", TRUE>>,
    <<"velocity_factor", 1200>>,
    <<"flame_strength", 35000>>,
    <<"smoke_density", 2000>>,
    <<"flame_color_low", <<70, 10, 0, 1000>>>>,
    <<"flame_color_mid", <<1000, 420, 80, 1000>>>>,
    <<"flame_color_high", <<1000, 950, 850, 1000>>>>
  >>

PRESET_OVERRIDES ==
  [
    CANDLE |-> <<
      <<"domain_size", <<1500, 1500, 2500>>>>,
      <<"emitter_scale", <<40, 40, 100>>>>,
      <<"resolution_max", 80>>,
      <<"vorticity", 250>>,
      <<"use_noise", TRUE>>,
      <<"noise_strength", 400>>,
      <<"noise_scale", 2000>>,
      <<"burning_rate", 800>>,
      <<"flame_smoke", 50>>,
      <<"flow_density", 600>>,
      <<"flow_temperature", 1000>>,
      <<"flow_fuel", 1000>>,
      <<"flame_strength", 18000>>,
      <<"smoke_density", 800>>,
      <<"use_dissolve_smoke", TRUE>>,
      <<"dissolve_speed", 35>>,
      <<"use_initial_velocity", FALSE>>,
      <<"velocity_factor", 1000>>,
      <<"flame_color_mid", <<1000, 550, 120, 1000>>>>,
      <<"flame_color_high", <<1000, 1000, 1000, 1000>>>>
    >>,
    TORCH |-> <<
      <<"resolution_max", 112>>,
      <<"vorticity", 800>>,
      <<"use_noise", TRUE>>,
      <<"noise_strength", 1000>>,
      <<"noise_scale", 2500>>,
      <<"velocity_factor", 1500>>
    >>,
    CAMPFIRE |-> <<
      <<"domain_size", <<4000, 4000, 4000>>>>,
      <<"emitter_scale", <<450, 450, 180>>>>,
      <<"resolution_max", 144>>,
      <<"vorticity", 1500>>,
      <<"use_noise", TRUE>>,
      <<"noise_strength", 1600>>,
      <<"noise_scale", 3000>>,
      <<"burning_rate", 1600>>,
      <<"flame_smoke", 350>>,
      <<"flow_density", 1200>>,
      <<"flow_temperature", 1350>>,
      <<"flow_fuel", 1300>>,
      <<"flame_strength", 55000>>,
      <<"smoke_density", 3000>>,
      <<"velocity_factor", 1000>>,
      <<"flame_color_mid", <<1000, 380, 60, 1000>>>>
    >>,
    BONFIRE |-> <<
      <<"domain_size", <<7000, 7000, 7000>>>>,
      <<"emitter_scale", <<900, 900, 350>>>>,
      <<"resolution_max", 160>>,
      <<"vorticity", 2200>>,
      <<"use_noise", TRUE>>,
      <<"noise_strength", 2000>>,
      <<"noise_scale", 3500>>,
      <<"burning_rate", 2100>>,
      <<"flame_smoke", 550>>,
      <<"flow_density", 1400>>,
      <<"flow_temperature", 1500>>,
      <<"flow_fuel", 1500>>,
      <<"flame_strength", 75000>>,
      <<"smoke_density", 4200>>,
      <<"velocity_factor", 1200>>,
      <<"flame_color_mid", <<1000, 300, 50, 1000>>>>,
      <<"flame_color_high", <<1000, 900, 800, 1000>>>>
    >>,
    EXPLOSION |-> <<
      <<"domain_size", <<10000, 10000, 10000>>>>,
      <<"emitter_scale", <<600, 600, 600>>>>,
      <<"resolution_max", 176>>,
      <<"time_scale", 850>>,
      <<"vorticity", 3000>>,
      <<"use_noise", TRUE>>,
      <<"noise_strength", 3000>>,
      <<"noise_scale", 4000>>,
      <<"burning_rate", 3000>>,
      <<"flame_smoke", 900>>,
      <<"flow_density", 2000>>,
      <<"flow_temperature", 2000>>,
      <<"flow_fuel", 2000>>,
      <<"flame_strength", 120000>>,
      <<"smoke_density", 6000>>,
      <<"use_dissolve_smoke", TRUE>>,
      <<"dissolve_speed", 18>>,
      <<"velocity_factor", 2000>>,
      <<"flame_color_low", <<100, 20, 0, 1000>>>>,
      <<"flame_color_mid", <<1000, 220, 30, 1000>>>>,
      <<"flame_color_high", <<1000, 850, 650, 1000>>>>
    >>
  ]

\* A dict's keys, and d[k] (the last item with key k).
Keys(items) == {items[i][1] : i \in DOMAIN items}

Get(items, k) ==
  LET idx == {i \in DOMAIN items : items[i][1] = k}
      top == CHOOSE i \in idx : \A j \in idx : j <= i
  IN  items[top][2]

PresetIds == {"CANDLE", "TORCH", "CAMPFIRE", "BONFIRE", "EXPLOSION"}

(***************************************************************************)
(* FIREVFX_Settings (src lines 445-558): the declared properties.          *)
(***************************************************************************)
Str(d) == [kind |-> "STRING", default |-> d]
Bool(d) == [kind |-> "BOOL", default |-> d]
Num(lo, hi, d) == [kind |-> "NUM", min |-> lo, max |-> hi, default |-> d]
Vec(n, lo, d) == [kind |-> "VEC", size |-> n, min |-> lo, bounded |-> FALSE, default |-> d]
Color(n, lo, hi, d) ==
  [kind |-> "VEC", size |-> n, min |-> lo, bounded |-> TRUE, max |-> hi, default |-> d]

FIREVFX_Settings ==
  [ preset |-> [kind |-> "ENUM", items |-> PresetIds, default |-> "TORCH"],
    domain_object_name |-> Str(""),
    emitter_object_name |-> Str(""),
    ui_show_advanced |-> Bool(FALSE),
    apply_scale_on_update |-> Bool(FALSE),
    domain_size |-> Vec(3, 100, <<2000, 2000, 3000>>),
    emitter_scale |-> Vec(3, 1, <<70, 70, 250>>),
    resolution_max |-> Num(16, 1024, 96),
    time_scale |-> Num(50, 3000, 1000),
    vorticity |-> Num(0, 10000, 800),
    use_adaptive_domain |-> Bool(TRUE),
    adaptive_margin |-> Num(0, 50, 4),
    adaptive_additional_res |-> Num(0, 256, 0),
    use_noise |-> Bool(FALSE),
    noise_strength |-> Num(0, 10000, 1000),
    noise_scale |-> Num(100, 20000, 2500),
    use_dissolve_smoke |-> Bool(FALSE),
    dissolve_speed |-> Num(1, 100, 30),
    burning_rate |-> Num(0, 10000, 1200),
    flame_smoke |-> Num(0, 5000, 180),
    flow_density |-> Num(0, 10000, 1000),
    flow_temperature |-> Num(0, 10000, 1250),
    flow_fuel |-> Num(0, 10000, 1150),
    use_initial_velocity |-> Bool(TRUE),
    velocity_factor |-> Num(0, 10000, 1500),
    flame_strength |-> Num(0, 500000, 35000),
    smoke_density |-> Num(0, 50000, 2000),
    flame_color_low |-> Color(4, 0, 1000, <<70, 10, 0, 1000>>),
    flame_color_mid |-> Color(4, 0, 1000, <<1000, 420, 80, 1000>>),
    flame_color_high |-> Color(4, 0, 1000, <<1000, 950, 850, 1000>>),
    cache_directory |-> Str("//fire_vfx_cache") ]

Fields == DOMAIN FIREVFX_Settings

\* The record as the host constructs it: every property at its default.
Defaults == [k \in Fields |-> FIREVFX_Settings[k].default]

(***************************************************************************)
(* Writing one property of the settings record.  hasattr fails for a field *)
(* this host's record lacks; the assignment raises for a value outside the *)
(* declared range, of the wrong arity, or that this host rejects.          *)
(***************************************************************************)
NoFaults == [absent |-> {}, rejects |-> {}, cfgAbsent |-> {}, cfgRejects |-> {}]

HasAttr(k) == k \in Fields /\ k \notin host.absent

InRange(k, v) ==
  LET p == FIREVFX_Settings[k]
  IN  CASE p.kind = "NUM" -> p.min <= v /\ v <= p.max
        [] p.kind = "VEC" ->
             /\ Len(v) = p.size
             /\ \A i \in 1..Len(v) : p.min <= v[i] /\ (p.bounded => v[i] <= p.max)
        [] p.kind = "ENUM" -> v \in p.items
        [] OTHER -> TRUE

Accepts(k, v) == InRange(k, v) /\ <<k, v>> \notin host.rejects

\* setattr(settings, k, v): the value is stored, or the assignment raises and
\* stores nothing.  A run r is [s |-> the record, exc |-> an exception escaped].
SetAttr(s, k, v) ==
  IF Accepts(k, v) THEN [s |-> [s EXCEPT ![k] = v], exc |-> FALSE]
  ELSE [s |-> s, exc |-> TRUE]

\* The write without its try/except: the exception escapes.
SetAttrUnguarded(r, k, v) ==
  IF r.exc \/ ~HasAttr(k) THEN r
  ELSE SetAttr(r.s, k, v)

\* if hasattr(settings, k): try: setattr(settings, k, v) except Exception: pass
SetAttrGuarded(r, k, v) ==
  IF r.exc \/ ~HasAttr(k) THEN r
  ELSE [s |-> SetAttr(r.s, k, v).s, exc |-> FALSE]

\* for k, v in items: the guarded write of each item, in the dict's order; an
\* exception that escapes a write ends the loop (every later write passes the
\* run on).  The run so far is bound once (x) before the next write reads it.
RECURSIVE WriteFrom(_, _, _)
WriteFrom(r, items, i) ==
  IF i > Len(items) THEN r
  ELSE WriteFrom(CHOOSE out \in {SetAttrGuarded(x, items[i][1], items[i][2]) : x \in {r}} : TRUE,
                 items, i + 1)

WriteItems(r, items) == WriteFrom(r, items, 1)

\* PRESET_OVERRIDES.get(preset_id, {})
OverridesOf(preset_id) ==
  IF preset_id \in DOMAIN PRESET_OVERRIDES THEN PRESET_OVERRIDES[preset_id] ELSE << >>

\* The two loops in the other order: the base written over the overrides.
ApplyOverridesFirst(s, preset_id) ==
  WriteItems(WriteItems([s |-> s, exc |-> FALSE], OverridesOf(preset_id)), BASE_PRESET)

\* The preset written onto a fresh record instead of the one passed in.
ApplyOntoDefaults(s, preset_id) ==
  WriteItems(WriteItems([s |-> Defaults, exc |-> FALSE], BASE_PRESET), OverridesOf(preset_id))

\* The preset's delta applied without the base pass before it.
ApplyOverridesOnly(s, preset_id) ==
  WriteItems([s |-> s, exc |-> FALSE], OverridesOf(preset_id))

\* _apply_preset_to_settings(settings, preset_id): the base written first,
\* then the preset's overrides.
_apply_preset_to_settings(s, preset_id) ==
  WriteItems(WriteItems([s |-> s, exc |-> FALSE], BASE_PRESET), OverridesOf(preset_id))


(***************************************************************************)
(* The host document.  An object is a record; bpy.data.objects is the      *)
(* sequence of objects in creation order, and a lookup by name yields the  *)
(* index of the object, 0 standing for None.                               *)
(***************************************************************************)
One == <<1000, 1000, 1000>>
SceneRoot == "Scene Collection"
NoObject == ""

\* bpy.data.objects.get(name)
ObjectsGet(objs, name) ==
  IF \E i \in DOMAIN objs : objs[i].name = name
  THEN CHOOSE i \in DOMAIN objs :
         objs[i].name = name /\ \A j \in DOMAIN objs : objs[j].name = name => i <= j
  ELSE 0

\* bpy.data.collections.get(name)
CollectionsGet(cols, name) ==
  IF \E i \in DOMAIN cols : cols[i].name = name
  THEN CHOOSE i \in DOMAIN cols :
         cols[i].name = name /\ \A j \in DOMAIN cols : cols[j].name = name => i <= j
  ELSE 0

\* _set_if_has(obj, attr, value) on a host record: the attribute is set when
\* the record has it and the host accepts the write.
_set_if_has(obj, attr, value) ==
  IF attr \in DOMAIN obj /\ <<attr, value>> \notin host.cfgRejects
  THEN [obj EXCEPT ![attr] = value]
  ELSE obj

\* A run of writes that ends at the first one the host lacks or rejects.
RECURSIVE SetFromStopping(_, _, _)
SetFromStopping(obj, writes, i) ==
  IF i > Len(writes) THEN obj
  ELSE IF writes[i][1] \notin DOMAIN obj \/ writes[i] \in host.cfgRejects THEN obj
  ELSE SetFromStopping([obj EXCEPT ![writes[i][1]] = writes[i][2]], writes, i + 1)

\* A run of _set_if_has calls on one record, in the order written.
RECURSIVE SetFrom(_, _, _)
SetFrom(obj, writes, i) ==
  IF i > Len(writes) THEN obj
  ELSE SetFrom(CHOOSE out \in {_set_if_has(x, writes[i][1], writes[i][2]) : x \in {obj}} : TRUE,
               writes, i + 1)

SetAll(obj, writes) == SetFrom(obj, writes, 1)

\* _ensure_collection(name): the collections after the call.
_ensure_collection(cols, name) ==
  IF CollectionsGet(cols, name) = 0
  THEN Append(cols, [name |-> name, in_scene |-> TRUE])
  ELSE cols

\* _link_to_collection(obj, col): unlinked from every collection it is in,
\* then linked to col.
_link_to_collection(obj, colname) ==
  [obj EXCEPT !.users_collection = {colname}]

\* What bpy.ops.mesh.primitive_*_add leaves in the document: a mesh object at
\* unit scale, with no modifier and no material slot, in the scene's collection.
NewPrimitive(kind, name) ==
  [ name |-> name, mesh |-> <<kind>>, scale |-> One, modifiers |-> << >>,
    materials |-> << >>, display_type |-> "TEXTURED", users_collection |-> {SceneRoot} ]

\* domain.scale = (size[0] / 2.0, size[1] / 2.0, size[2] / 2.0)
HalfSize(size) == <<size[1] \div 2, size[2] \div 2, size[3] \div 2>>

\* bpy.ops.object.transform_apply(scale=True) on one selected object: its scale
\* is multiplied into the mesh and reset to one.
TransformApply(obj) ==
  IF obj.scale = One THEN obj
  ELSE [obj EXCEPT !.mesh = Append(@, obj.scale), !.scale = One]

(***************************************************************************)
(* Color ramp (src lines 77-114).  A ramp is the sequence of its stops.    *)
(***************************************************************************)
Stop(pos, col) == [position |-> pos, color |-> col]

Black == <<0, 0, 0, 1000>>
White == <<1000, 1000, 1000, 1000>>

\* The ramp of a new ShaderNodeValToRGB.
DefaultRamp == <<Stop(0, Black), Stop(1000, White)>>

\* cr.elements.new(position): the host inserts a stop at the position, after
\* the stops at or before it, with the colour the ramp has there.
ElementsNew(cr, pos) ==
  LET before == {i \in DOMAIN cr : cr[i].position <= pos}
      n == Cardinality(before)
      col == IF n = 0 THEN (IF Len(cr) = 0 THEN Black ELSE cr[1].color) ELSE cr[n].color
  IN  SubSeq(cr, 1, n) \o <<Stop(pos, col)>> \o SubSeq(cr, n + 1, Len(cr))

\* cr.elements.remove(cr.elements[-1]) raises when one stop is left.
RemoveRaises(cr) == Len(cr) <= 1

\* while len(cr.elements) < len(desired): cr.elements.new(desired[len][0])
RECURSIVE Grow(_, _)
Grow(cr, desired) ==
  IF Len(cr) < Len(desired) THEN Grow(ElementsNew(cr, desired[Len(cr) + 1][1]), desired)
  ELSE cr

\* The shrinking loop removing one stop only.
ShrinkOnce(cr, desired) ==
  IF Len(cr) > Len(desired) /\ ~RemoveRaises(cr) THEN SubSeq(cr, 1, Len(cr) - 1) ELSE cr

\* while len(cr.elements) > len(desired): try remove(last) except: break
RECURSIVE Shrink(_, _)
Shrink(cr, desired) ==
  IF Len(cr) > Len(desired)
  THEN IF RemoveRaises(cr) THEN cr
       ELSE Shrink(SubSeq(cr, 1, Len(cr) - 1), desired)
  ELSE cr

\* for i, (pos, col) in enumerate(desired): a stop the ramp lacks raises, and
\* the write is skipped.
ApplyValues(cr, desired) ==
  [i \in DOMAIN cr |-> IF i \in DOMAIN desired THEN Stop(desired[i][1], desired[i][2]) ELSE cr[i]]

_set_color_ramp_elements(cr, elements) ==
  IF elements = << >> THEN cr
  ELSE LET c0 == IF Len(cr) = 0 THEN ElementsNew(cr, 0) ELSE cr
       IN  ApplyValues(Shrink(Grow(c0, elements), elements), elements)

(***************************************************************************)
(* Shader graph (src lines 117-196).  A material is its node tree: the     *)
(* nodes in creation order and the links between their sockets.            *)
(***************************************************************************)
Link(fromNode, fromSocket, toNode, toSocket) ==
  [from_node |-> fromNode, from_socket |-> fromSocket,
   to_node |-> toNode, to_socket |-> toSocket]

\* A material as bpy.data.materials.new leaves it, and the tree the host
\* gives it when nodes are first switched on.
NewMaterial == [use_nodes |-> FALSE, nodes |-> << >>, links |-> << >>]

DefaultTree ==
  [ use_nodes |-> TRUE,
    nodes |-> << [type |-> "ShaderNodeBsdfPrincipled"], [type |-> "ShaderNodeOutputMaterial"] >>,
    links |-> << Link(1, "BSDF", 2, "Surface") >> ]

\* mat.use_nodes = True
UseNodes(mat) == IF mat.use_nodes THEN mat ELSE DefaultTree

\* _get_or_create_material(name): the materials after the call.
_get_or_create_material(mats, name) ==
  IF name \in DOMAIN mats
  THEN [mats EXCEPT ![name] = UseNodes(@)]
  ELSE [n \in DOMAIN mats \cup {name} |-> IF n = name THEN UseNodes(NewMaterial) ELSE mats[n]]

\* The seven nodes and seven links _build_volume_shader creates, the first
\* node at index base + 1.
BuiltNodes(flame_strength, smoke_density, flame_ramp) ==
  << [type |-> "ShaderNodeOutputMaterial", location |-> <<520, 0>>],
     _set_if_has(
       _set_if_has([type |-> "ShaderNodeVolumePrincipled", location |-> <<260, 0>>,
                    Anisotropy |-> 0, Color |-> <<500, 500, 500, 1000>>],
                   "Anisotropy", 200),
       "Color", <<200, 200, 200, 1000>>),
     [type |-> "ShaderNodeAttribute", attribute_name |-> "density", location |-> <<-520, -120>>],
     [type |-> "ShaderNodeAttribute", attribute_name |-> "flame", location |-> <<-520, 140>>],
     [type |-> "ShaderNodeValToRGB", location |-> <<-240, 140>>,
      color_ramp |-> _set_color_ramp_elements(DefaultRamp, flame_ramp)],
     [type |-> "ShaderNodeMath", operation |-> "MULTIPLY", value |-> flame_strength,
      location |-> <<-20, 140>>],
     [type |-> "ShaderNodeMath", operation |-> "MULTIPLY", value |-> smoke_density,
      location |-> <<-20, -120>>] >>

BuiltLinks(base) ==
  << Link(base + 2, "Volume", base + 1, "Volume"),
     Link(base + 4, "Fac", base + 5, "Fac"),
     Link(base + 5, "Color", base + 2, "Emission Color"),
     Link(base + 4, "Fac", base + 6, "Value"),
     Link(base + 6, "Value", base + 2, "Emission Strength"),
     Link(base + 3, "Fac", base + 7, "Value"),
     Link(base + 7, "Value", base + 2, "Density") >>

\* The build without nodes.clear(): the new nodes join the old ones.
BuildWithoutClear(mat, flame_strength, smoke_density, flame_ramp) ==
  [mat EXCEPT !.nodes = @ \o BuiltNodes(flame_strength, smoke_density, flame_ramp),
              !.links = @ \o BuiltLinks(Len(mat.nodes))]

\* _build_volume_shader(mat, ...): nodes.clear() (the host drops the links of
\* the nodes removed), then the fixed graph.
_build_volume_shader(mat, flame_strength, smoke_density, flame_ramp) ==
  [mat EXCEPT !.nodes = BuiltNodes(flame_strength, smoke_density, flame_ramp),
              !.links = BuiltLinks(0)]

\* flame_ramp as _ensure_domain_material builds it from the settings.
FlameRamp(s) ==
  << <<0, s["flame_color_low"]>>, <<250, s["flame_color_mid"]>>, <<1000, s["flame_color_high"]>> >>

\* _ensure_domain_material, the material's side: the materials after the call.
EnsureMaterialData(mats, s) ==
  LET got == _get_or_create_material(mats, MATERIAL_NAME)
  IN  [got EXCEPT ![MATERIAL_NAME] =
         _build_volume_shader(@, s["flame_strength"], s["smoke_density"], FlameRamp(s))]

\* _ensure_domain_material, the object's side: the first slot holds the
\* material, appended when the mesh has no slot.
AssignMaterial(obj) ==
  IF Len(obj.materials) = 0
  THEN [obj EXCEPT !.materials = Append(@, MATERIAL_NAME)]
  ELSE [obj EXCEPT !.materials[1] = MATERIAL_NAME]

(***************************************************************************)
(* Simulation configurator (src lines 199-281).                            *)
(***************************************************************************)
\* The solver records the host attaches to a fluid modifier of each type, as
\* far as this plugin writes them; the host's own defaults stand for unset.
DomainFields ==
  [ domain_type |-> "", cache_directory |-> "", cache_type |-> "",
    resolution_max |-> 0, time_scale |-> 0, vorticity |-> 0,
    use_adaptive_domain |-> FALSE, additional_res |-> 0, adapt_margin |-> 0,
    use_noise |-> FALSE, noise_strength |-> 0, noise_scale |-> 0,
    use_dissolve_smoke |-> FALSE, dissolve_speed |-> 0,
    use_reaction |-> FALSE, burning_rate |-> 0, flame_smoke |-> 0 ]

FlowFields ==
  [ flow_type |-> "", flow_behavior |-> "", density |-> 0, temperature |-> 0,
    fuel_amount |-> 0, use_initial_velocity |-> FALSE, velocity_factor |-> 0 ]

\* A record with the fields this host version has.
HostRecord(fields) == [f \in (DOMAIN fields) \ host.cfgAbsent |-> fields[f]]

\* obj.modifiers.new(name="Fluid", type="FLUID")
NewFluidModifier ==
  [type |-> "FLUID", fluid_type |-> "NONE", domain_settings |-> << >>, flow_settings |-> << >>]

\* The first modifier of type FLUID, 0 when there is none.
FluidModifierIndex(mods) ==
  IF \E i \in DOMAIN mods : mods[i].type = "FLUID"
  THEN CHOOSE i \in DOMAIN mods :
         mods[i].type = "FLUID" /\ \A j \in DOMAIN mods : mods[j].type = "FLUID" => i <= j
  ELSE 0

\* A new modifier on every call.
EnsureFluidAlwaysNew(mods) == <<NewFluidModifier>> \o mods

\* _ensure_fluid_modifier(obj): the object's modifiers after the call.
_ensure_fluid_modifier(mods) ==
  IF FluidModifierIndex(mods) = 0 THEN Append(mods, NewFluidModifier) ELSE mods

\* _set_if_has(mod, "fluid_type", t): on a change of type the host replaces
\* the modifier's solver records by the one of the new type.
SetFluidType(mod, t) ==
  LET m == _set_if_has(mod, "fluid_type", t)
  IN  IF m.fluid_type = mod.fluid_type THEN mod
      ELSE [m EXCEPT !.domain_settings = IF m.fluid_type = "DOMAIN" THEN HostRecord(DomainFields) ELSE << >>,
                     !.flow_settings = IF m.fluid_type = "FLOW" THEN HostRecord(FlowFields) ELSE << >>]

\* The writes of _apply_domain_settings to domain_settings, in order.
DomainWrites(s) ==
  << <<"domain_type", "GAS">>,
     <<"cache_directory", s["cache_directory"]>>,
     <<"cache_type", "MODULAR">>,
     <<"resolution_max", s["resolution_max"]>>,
     <<"time_scale", s["time_scale"]>>,
     <<"vorticity", s["vorticity"]>>,
     <<"use_adaptive_domain", s["use_adaptive_domain"]>>,
     <<"additional_res", s["adaptive_additional_res"]>>,
     <<"adapt_margin", s["adaptive_margin"]>>,
     <<"use_noise", s["use_noise"]>>,
     <<"noise_strength", s["noise_strength"]>>,
     <<"noise_scale", s["noise_scale"]>>,
     <<"use_dissolve_smoke", s["use_dissolve_smoke"]>>,
     <<"dissolve_speed", s["dissolve_speed"]>>,
     <<"use_reaction", TRUE>>,
     <<"burning_rate", s["burning_rate"]>>,
     <<"flame_smoke", s["flame_smoke"]>> >>

\* getattr(mod, "domain_settings", None) is None unless the modifier is a domain.
_apply_domain_settings(obj, s) ==
  LET mods == _ensure_fluid_modifier(obj.modifiers)
      i == FluidModifierIndex(mods)
      m == SetFluidType(mods[i], "DOMAIN")
  IN  [obj EXCEPT !.modifiers =
         [mods EXCEPT ![i] =
            IF m.fluid_type # "DOMAIN" THEN m
            ELSE [m EXCEPT !.domain_settings = SetAll(@, DomainWrites(s))]]]

\* if hasattr(fs, "flow_type"): try FIRE, except: try SMOKE, except: pass
SetFlowType(fs) ==
  IF "flow_type" \notin DOMAIN fs THEN fs
  ELSE IF <<"flow_type", "FIRE">> \notin host.cfgRejects THEN [fs EXCEPT !["flow_type"] = "FIRE"]
  ELSE IF <<"flow_type", "SMOKE">> \notin host.cfgRejects THEN [fs EXCEPT !["flow_type"] = "SMOKE"]
  ELSE fs

\* The writes of _apply_flow_settings to flow_settings after the flow type.
FlowWrites(s) ==
  << <<"flow_behavior", "INFLOW">>,
     <<"density", s["flow_density"]>>,
     <<"temperature", s["flow_temperature"]>>,
     <<"fuel_amount", s["flow_fuel"]>>,
     <<"use_initial_velocity", s["use_initial_velocity"]>>,
     <<"velocity_factor", s["velocity_factor"]>> >>

_apply_flow_settings(obj, s) ==
  LET mods == _ensure_fluid_modifier(obj.modifiers)
      i == FluidModifierIndex(mods)
      m == SetFluidType(mods[i], "FLOW")
  IN  [obj EXCEPT !.modifiers =
         [mods EXCEPT ![i] =
            IF m.fluid_type # "FLOW" THEN m
            ELSE [m EXCEPT !.flow_settings = SetAll(SetFlowType(@), FlowWrites(s))]]]

\* The lookup settling for any object when a stored name does not resolve.
FindRigOrAny(objs, s) ==
  LET any == IF Len(objs) = 0 THEN 0 ELSE 1
      dom == ObjectsGet(objs, s["domain_object_name"])
      emi == ObjectsGet(objs, s["emitter_object_name"])
  IN  [ dom |-> IF dom # 0 THEN dom ELSE any, emi |-> IF emi # 0 THEN emi ELSE any ]

\* _find_rig(context): the two lookups by the names stored in the settings.
_find_rig(objs, s) ==
  [ dom |-> IF s["domain_object_name"] # "" THEN ObjectsGet(objs, s["domain_object_name"]) ELSE 0,
    emi |-> IF s["emitter_object_name"] # "" THEN ObjectsGet(objs, s["emitter_object_name"]) ELSE 0 ]


(***************************************************************************)
(* Bounds of the model.                                                    *)
(***************************************************************************)
MaxEdits == 1      \* manual edits of settings fields in one behaviour
MaxFaults == 1     \* fields or writes a host version lacks or rejects
MaxUserActs == 1   \* manual changes of the document in one behaviour
MaxFreezes == 1    \* scales frozen into one mesh
MaxStops == 5      \* stops of a ramp before it is reconciled

(***************************************************************************)
(* The values a user types into a field of the panel (src lines 741-817):  *)
(* the ends of the declared range, either boolean, another path or name.   *)
(***************************************************************************)
EditChoices(k) ==
  LET p == FIREVFX_Settings[k]
  IN  CASE p.kind = "NUM" -> {p.min, p.max}
        [] p.kind = "BOOL" -> BOOLEAN
        [] p.kind = "VEC" ->
             {[i \in 1..p.size |-> p.min]} \cup
             (IF p.bounded THEN {[i \in 1..p.size |-> p.max]} ELSE {})
        [] k = "cache_directory" -> {"//edited"}
        [] p.kind = "STRING" -> {"", DOMAIN_NAME, EMITTER_NAME}
        [] OTHER -> {}

Op(name, arg, result) ==
  [op |-> name, arg |-> arg, result |-> result, report |-> "NONE", calls |-> << >>]

\* A host operator invoked and whether it went through or raised.
Call(name, ok) == <<name, IF ok THEN "OK" ELSE "RAISED">>

Outcome(name, result, report, calls) ==
  [op |-> name, arg |-> None, result |-> result, report |-> report, calls |-> calls]

doc == <<objects, collections, materials, active, selected, baked>>

vars == <<settings, host, last, edits, objects, collections, materials, active, selected,
          baked, ramp>>

\* The callback reading the selector's value from before the change.
PresetUpdateStale(p) ==
  \E r \in {_apply_preset_to_settings([settings EXCEPT !["preset"] = p], settings["preset"])} :
    /\ settings' = r.s
    /\ last' = Op("preset", p, IF r.exc THEN "RAISED" ELSE "DONE")
    /\ UNCHANGED <<host, edits, doc, ramp>>

\* Choosing a preset in the panel: the property is set and its update callback
\* applies the preset to the same record.
_preset_update(p) ==
  \E r \in {_apply_preset_to_settings([settings EXCEPT !["preset"] = p], p)} :
    /\ settings' = r.s
    /\ last' = Op("preset", p, IF r.exc THEN "RAISED" ELSE "DONE")
    /\ UNCHANGED <<host, edits, doc, ramp>>

\* A manual edit of one field other than the preset selector.
EditField(k, v) ==
  /\ edits < MaxEdits
  /\ k # "preset"
  /\ v # settings[k]
  /\ settings' = [settings EXCEPT ![k] = v]
  /\ edits' = edits + 1
  /\ last' = Op("edit", k, "DONE")
  /\ UNCHANGED <<host, doc, ramp>>

(***************************************************************************)
(* Operators (src lines 565-727).                                          *)
(***************************************************************************)
\* The objects with every selected one's scale applied.
ApplySelected(objs, sel) ==
  [i \in DOMAIN objs |-> IF objs[i].name \in sel THEN TransformApply(objs[i]) ELSE objs[i]]

\* The optional block of create_rig and update_rig: each rig object in turn is
\* made active and selected and transform_apply is invoked; okDom and okEmi
\* tell whether the host's operator went through.  The result is the objects,
\* the selection and the active object.
ScaleBlock(objs, sel, act, d, e, apply, okDom, okEmi) ==
  IF ~apply THEN [objs |-> objs, sel |-> sel, act |-> act, calls |-> << >>]
  ELSE LET sel1 == sel \cup {objs[d].name}
           objs1 == IF okDom THEN ApplySelected(objs, sel1) ELSE objs
           sel2 == sel1 \cup {objs1[e].name}
           objs2 == IF okEmi THEN ApplySelected(objs1, sel2) ELSE objs1
       IN  [objs |-> objs2, sel |-> sel2, act |-> objs2[e].name,
            calls |-> <<Call("object.transform_apply", okDom), Call("object.transform_apply", okEmi)>>]

\* Whether one more scale may be frozen into every mesh (the model's cap).
FreezeRoom(objs) == \A i \in DOMAIN objs : Len(objs[i].mesh) <= MaxFreezes

\* The lookup of create_rig ignoring the objects that exist.
LookupNothing(objs, name) == 0

\* The objects create_rig reuses: bpy.data.objects.get(name).
RigLookup(objs, name) == ObjectsGet(objs, name)

\* The end of create_rig without the references stored.
CreateFinishNoStore(sb, d, e, s, mats) ==
  LET objs1 == [sb.objs EXCEPT ![d] = _apply_domain_settings(@, s)]
      objs2 == [objs1 EXCEPT ![e] = _apply_flow_settings(@, s)]
      objs3 == [objs2 EXCEPT ![d] = AssignMaterial(@)]
      objs4 == [objs3 EXCEPT ![d] = _set_if_has(@, "display_type", "WIRE")]
  IN  [ objects |-> [objs4 EXCEPT ![e] = _set_if_has(@, "display_type", "SOLID")],
        materials |-> EnsureMaterialData(mats, s),
        settings |-> s,
        selected |-> sb.sel,
        active |-> sb.act,
        calls |-> sb.calls ]

\* create_rig after the scale block: the fluid settings, the shader, the names
\* stored and the display types, given the outcome sb of the scale block.
CreateFinish(sb, d, e, s, mats) ==
  LET objs1 == [sb.objs EXCEPT ![d] = _apply_domain_settings(@, s)]
      objs2 == [objs1 EXCEPT ![e] = _apply_flow_settings(@, s)]
      objs3 == [objs2 EXCEPT ![d] = AssignMaterial(@)]
      objs4 == [objs3 EXCEPT ![d] = _set_if_has(@, "display_type", "WIRE")]
  IN  [ objects |-> [objs4 EXCEPT ![e] = _set_if_has(@, "display_type", "SOLID")],
        materials |-> EnsureMaterialData(mats, s),
        settings |-> [s EXCEPT !["domain_object_name"] = sb.objs[d].name,
                               !["emitter_object_name"] = sb.objs[e].name],
        selected |-> sb.sel,
        active |-> sb.act,
        calls |-> sb.calls ]

\* create_rig from "Apply sizes" to its end, on the domain at index d and the
\* emitter at index e: what it leaves of the objects, the materials, the
\* settings and the selection, and the host operators it invoked.
CreateFromSizes(objs, d, e, s, sel, act, mats, okDom, okEmi) ==
  CHOOSE c \in
    {CreateFinish(sb, d, e, s, mats) :
       sb \in {ScaleBlock([[objs EXCEPT ![d].scale = HalfSize(s["domain_size"])]
                             EXCEPT ![e].scale = s["emitter_scale"]],
                          sel, act, d, e, s["apply_scale_on_update"], okDom, okEmi)}} : TRUE

FIREVFX_OT_create_rig(okDom, okEmi) ==
  /\ settings["apply_scale_on_update"] => FreezeRoom(objects)
  /\ \E d0 \in {RigLookup(objects, DOMAIN_NAME)}, e0 \in {RigLookup(objects, EMITTER_NAME)} :
     \E objs1 \in {IF d0 = 0 THEN Append(objects, NewPrimitive("CUBE", DOMAIN_NAME)) ELSE objects} :
     \E d \in {IF d0 = 0 THEN Len(objs1) ELSE d0} :
     \E objs2 \in {IF e0 = 0 THEN Append(objs1, NewPrimitive("CYLINDER", EMITTER_NAME)) ELSE objs1} :
     \E e \in {IF e0 = 0 THEN Len(objs2) ELSE e0} :
     \E sel0 \in {IF e0 = 0 THEN {EMITTER_NAME} ELSE IF d0 = 0 THEN {DOMAIN_NAME} ELSE selected} :
     \E act0 \in {IF e0 = 0 THEN EMITTER_NAME ELSE IF d0 = 0 THEN DOMAIN_NAME ELSE active} :
     \E objs3 \in {[objs2 EXCEPT ![d] = _link_to_collection(@, COLLECTION_NAME)]} :
     \E objs4 \in {[objs3 EXCEPT ![e] = _link_to_collection(@, COLLECTION_NAME)]} :
     \E c \in {CreateFromSizes(objs4, d, e, settings, sel0, act0, materials, okDom, okEmi)} :
       /\ collections' = _ensure_collection(collections, COLLECTION_NAME)
       /\ materials' = c.materials
       /\ objects' = c.objects
       /\ settings' = c.settings
       /\ selected' = c.selected
       /\ active' = c.active
       /\ last' = Outcome("create_rig", "FINISHED", "NONE",
                          (IF d0 = 0 THEN <<Call("mesh.primitive_cube_add", TRUE)>> ELSE << >>) \o
                          (IF e0 = 0 THEN <<Call("mesh.primitive_cylinder_add", TRUE)>> ELSE << >>) \o c.calls)
       /\ UNCHANGED <<host, edits, baked, ramp>>

\* The update leaving the shader as it is.
UpdateWithoutShader(okDom, okEmi) ==
  \E rig \in {_find_rig(objects, settings)} :
    IF rig.dom = 0 \/ rig.emi = 0
    THEN /\ last' = Outcome("update_rig", "CANCELLED", "WARNING", << >>)
         /\ UNCHANGED <<settings, host, edits, doc, ramp>>
    ELSE /\ settings["apply_scale_on_update"] => FreezeRoom(objects)
         /\ \E objs1 \in {[objects EXCEPT ![rig.dom].scale = HalfSize(settings["domain_size"])]} :
            \E objs2 \in {[objs1 EXCEPT ![rig.emi].scale = settings["emitter_scale"]]} :
            \E sb \in {ScaleBlock(objs2, selected, active, rig.dom, rig.emi,
                                  settings["apply_scale_on_update"], okDom, okEmi)} :
            \E objs3 \in {[sb.objs EXCEPT ![rig.dom] = _apply_domain_settings(@, settings)]} :
              /\ objects' = [objs3 EXCEPT ![rig.emi] = _apply_flow_settings(@, settings)]
              /\ selected' = sb.sel
              /\ active' = sb.act
              /\ last' = Outcome("update_rig", "FINISHED", "NONE", sb.calls)
              /\ UNCHANGED <<settings, host, edits, collections, materials, baked, ramp>>

FIREVFX_OT_update_rig(okDom, okEmi) ==
  \E rig \in {_find_rig(objects, settings)} :
    IF rig.dom = 0 \/ rig.emi = 0
    THEN /\ last' = Outcome("update_rig", "CANCELLED", "WARNING", << >>)
         /\ UNCHANGED <<settings, host, edits, doc, ramp>>
    ELSE /\ settings["apply_scale_on_update"] => FreezeRoom(objects)
         /\ \E objs1 \in {[objects EXCEPT ![rig.dom].scale = HalfSize(settings["domain_size"])]} :
            \E objs2 \in {[objs1 EXCEPT ![rig.emi].scale = settings["emitter_scale"]]} :
            \E sb \in {ScaleBlock(objs2, selected, active, rig.dom, rig.emi,
                                  settings["apply_scale_on_update"], okDom, okEmi)} :
            \E objs3 \in {[sb.objs EXCEPT ![rig.dom] = _apply_domain_settings(@, settings)]} :
            \E objs4 \in {[objs3 EXCEPT ![rig.emi] = _apply_flow_settings(@, settings)]} :
              /\ materials' = EnsureMaterialData(materials, settings)
              /\ objects' = [objs4 EXCEPT ![rig.dom] = AssignMaterial(@)]
              /\ selected' = sb.sel
              /\ active' = sb.act
              /\ last' = Outcome("update_rig", "FINISHED", "NONE", sb.calls)
              /\ UNCHANGED <<settings, host, edits, collections, baked, ramp>>

\* The housekeeping before a bake or a free: the selection cleared and the
\* domain made the selected, active object, as far as the host lets it.
MakeActive(name, how) ==
  /\ selected' = CASE how = "OK" -> {name} [] how = "DESELECTED" -> {} [] OTHER -> selected
  /\ active' = IF how = "OK" THEN name ELSE active

Housekeeping == {"OK", "DESELECTED", "RAISED"}

\* The bake giving up after the first failed attempt.
BakeWithoutRetry(how, bake1, free, bake2) ==
  \E rig \in {_find_rig(objects, settings)} :
    IF rig.dom = 0
    THEN /\ last' = Outcome("bake_all", "CANCELLED", "WARNING", << >>)
         /\ UNCHANGED <<settings, host, edits, doc, ramp>>
    ELSE /\ MakeActive(objects[rig.dom].name, how)
         /\ baked' = (baked \/ bake1)
         /\ last' = Outcome("bake_all", IF bake1 THEN "FINISHED" ELSE "CANCELLED",
                            IF bake1 THEN "NONE" ELSE "ERROR", <<Call("fluid.bake_all", bake1)>>)
         /\ UNCHANGED <<settings, host, edits, objects, collections, materials, ramp>>

FIREVFX_OT_bake_all(how, bake1, free, bake2) ==
  \E rig \in {_find_rig(objects, settings)} :
    IF rig.dom = 0
    THEN /\ last' = Outcome("bake_all", "CANCELLED", "WARNING", << >>)
         /\ UNCHANGED <<settings, host, edits, doc, ramp>>
    ELSE /\ MakeActive(objects[rig.dom].name, how)
         /\ IF bake1
            THEN /\ baked' = TRUE
                 /\ last' = Outcome("bake_all", "FINISHED", "NONE", <<Call("fluid.bake_all", TRUE)>>)
            ELSE IF ~free
            THEN /\ baked' = baked
                 /\ last' = Outcome("bake_all", "CANCELLED", "ERROR",
                                    <<Call("fluid.bake_all", FALSE), Call("fluid.free_all", FALSE)>>)
            ELSE /\ baked' = bake2
                 /\ last' = Outcome("bake_all", IF bake2 THEN "FINISHED" ELSE "CANCELLED",
                                    IF bake2 THEN "NONE" ELSE "ERROR",
                                    <<Call("fluid.bake_all", FALSE), Call("fluid.free_all", TRUE),
                                      Call("fluid.bake_all", bake2)>>)
         /\ UNCHANGED <<settings, host, edits, objects, collections, materials, ramp>>

FIREVFX_OT_free_all(how, free) ==
  \E rig \in {_find_rig(objects, settings)} :
    IF rig.dom = 0
    THEN /\ last' = Outcome("free_all", "CANCELLED", "WARNING", << >>)
         /\ UNCHANGED <<settings, host, edits, doc, ramp>>
    ELSE /\ MakeActive(objects[rig.dom].name, how)
         /\ baked' = IF free THEN FALSE ELSE baked
         /\ last' = Outcome("free_all", IF free THEN "FINISHED" ELSE "CANCELLED",
                            IF free THEN "NONE" ELSE "ERROR", <<Call("fluid.free_all", free)>>)
         /\ UNCHANGED <<settings, host, edits, objects, collections, materials, ramp>>

(***************************************************************************)
(* What the user does to the document outside the plugin.                  *)
(***************************************************************************)
UserAct(what) ==
  /\ edits < MaxUserActs
  /\ edits' = edits + 1
  /\ last' = Op("user", what, "DONE")

\* An object deleted.
UserDeleteObject(i) ==
  /\ UserAct("delete")
  /\ objects' = SubSeq(objects, 1, i - 1) \o SubSeq(objects, i + 1, Len(objects))
  /\ selected' = selected \ {objects[i].name}
  /\ active' = IF active = objects[i].name THEN NoObject ELSE active
  /\ UNCHANGED <<settings, host, collections, materials, baked, ramp>>

\* A modifier of another type put on top of an object's stack.
UserAddModifier(i) ==
  /\ UserAct("add_modifier")
  /\ objects' = [objects EXCEPT ![i].modifiers = <<[type |-> "SUBSURF"]>> \o @]
  /\ UNCHANGED <<settings, host, collections, materials, active, selected, baked, ramp>>

\* An object's first modifier removed.
UserRemoveModifier(i) ==
  /\ UserAct("remove_modifier")
  /\ objects[i].modifiers # << >>
  /\ objects' = [objects EXCEPT ![i].modifiers = Tail(@)]
  /\ UNCHANGED <<settings, host, collections, materials, active, selected, baked, ramp>>

\* An empty material slot added to an object's mesh.
UserAddSlot(i) ==
  /\ UserAct("add_slot")
  /\ objects' = [objects EXCEPT ![i].materials = Append(@, "")]
  /\ UNCHANGED <<settings, host, collections, materials, active, selected, baked, ramp>>

\* A node, linked to the first node, added to the material's graph.
UserAddNode ==
  /\ UserAct("add_node")
  /\ MATERIAL_NAME \in DOMAIN materials
  /\ materials' = [materials EXCEPT
       ![MATERIAL_NAME].links = Append(@, Link(Len(materials[MATERIAL_NAME].nodes) + 1, "Color", 1, "Surface")),
       ![MATERIAL_NAME].nodes = Append(@, [type |-> "ShaderNodeRGB"])]
  /\ UNCHANGED <<settings, host, objects, collections, active, selected, baked, ramp>>

\* An object linked into one more collection.
UserLinkObject(i) ==
  /\ UserAct("link")
  /\ "Collection" \notin objects[i].users_collection
  /\ objects' = [objects EXCEPT ![i].users_collection = @ \cup {"Collection"}]
  /\ UNCHANGED <<settings, host, collections, materials, active, selected, baked, ramp>>

\* An object's viewport display changed in the object properties.
UserSetDisplay(i) ==
  /\ UserAct("display")
  /\ objects[i].display_type # "TEXTURED"
  /\ objects' = [objects EXCEPT ![i].display_type = "TEXTURED"]
  /\ UNCHANGED <<settings, host, collections, materials, active, selected, baked, ramp>>

(***************************************************************************)
(* The plugin in its host: the state after register() in a new document.   *)
(***************************************************************************)
\* register(): the record at its defaults, then the default preset applied.
Registered == _apply_preset_to_settings(Defaults, Defaults["preset"]).s

NewDocument ==
  /\ objects = << >>
  /\ collections = << >>
  /\ materials = << >>
  /\ active = NoObject
  /\ selected = {}
  /\ baked = FALSE
  /\ ramp = DefaultRamp

Init ==
  /\ host = NoFaults
  /\ settings = Registered
  /\ edits = 0
  /\ last = Op("register", None, "DONE")
  /\ NewDocument

Next ==
  \/ \E p \in PresetIds : _preset_update(p)
  \/ \E v \in BOOLEAN : EditField("apply_scale_on_update", v)
  \/ \E okDom, okEmi \in BOOLEAN : FIREVFX_OT_create_rig(okDom, okEmi)
  \/ \E okDom, okEmi \in BOOLEAN : FIREVFX_OT_update_rig(okDom, okEmi)
  \/ \E i \in DOMAIN objects : UserDeleteObject(i)
  \/ \E i \in DOMAIN objects : UserAddModifier(i)
  \/ \E i \in DOMAIN objects : UserRemoveModifier(i)
  \/ \E i \in DOMAIN objects : UserAddSlot(i)
  \/ \E i \in DOMAIN objects : UserLinkObject(i)
  \/ UserAddNode

Spec == Init /\ [][Next]_vars

(***************************************************************************)
(* Baking: the rig created, objects deleted, the cache baked and freed.    *)
(***************************************************************************)
NextBake ==
  \/ \E okDom, okEmi \in BOOLEAN : FIREVFX_OT_create_rig(okDom, okEmi)
  \/ \E how \in Housekeeping : \E bake1, free, bake2 \in BOOLEAN :
       FIREVFX_OT_bake_all(how, bake1, free, bake2)
  \/ \E how \in Housekeeping : \E free \in BOOLEAN : FIREVFX_OT_free_all(how, free)
  \/ \E i \in DOMAIN objects : UserDeleteObject(i)

SpecBake == Init /\ [][NextBake]_vars

(***************************************************************************)
(* Updating: the rig created and updated while presets are chosen, the     *)
(* stored names retyped and the objects' display changed.                  *)
(***************************************************************************)
NextUpdate ==
  \/ \E p \in PresetIds : _preset_update(p)
  \/ \E k \in {"apply_scale_on_update", "domain_object_name", "emitter_object_name"} :
       \E v \in EditChoices(k) : EditField(k, v)
  \/ \E okDom, okEmi \in BOOLEAN : FIREVFX_OT_create_rig(okDom, okEmi)
  \/ \E okDom, okEmi \in BOOLEAN : FIREVFX_OT_update_rig(okDom, okEmi)
  \/ \E i \in DOMAIN objects : UserSetDisplay(i)

SpecUpdate == Init /\ [][NextUpdate]_vars

(***************************************************************************)
(* Lookup: as for baking, with the rig updated and the stored names        *)
(* retyped in the panel.                                                   *)
(***************************************************************************)
NextLookup ==
  \/ NextBake
  \/ \E okDom, okEmi \in BOOLEAN : FIREVFX_OT_update_rig(okDom, okEmi)
  \/ \E k \in {"domain_object_name", "emitter_object_name"} :
       \E v \in EditChoices(k) : EditField(k, v)

SpecLookup == Init /\ [][NextLookup]_vars

(***************************************************************************)
(* The settings record alone: presets chosen and fields edited.            *)
(***************************************************************************)
InitPreset == Init

NextPreset ==
  \/ \E p \in PresetIds : _preset_update(p)
  \/ \E k \in Fields : \E v \in EditChoices(k) : EditField(k, v)

SpecPreset == InitPreset /\ [][NextPreset]_vars

(***************************************************************************)
(* The same record on a host version that lacks some fields or rejects     *)
(* some values: which ones is fixed for the session.                       *)
(***************************************************************************)
RECURSIVE SubsetsUpTo(_, _)
SubsetsUpTo(S, n) ==
  IF n = 0 THEN {{}}
  ELSE LET smaller == SubsetsUpTo(S, n - 1)
       IN  smaller \cup {T \cup {x} : T \in smaller, x \in S}

ItemSet(items) == {items[i] : i \in DOMAIN items}

PresetWrites == ItemSet(BASE_PRESET) \cup UNION {ItemSet(PRESET_OVERRIDES[p]) : p \in PresetIds}

HostProfiles ==
  UNION {{[NoFaults EXCEPT !.absent = A, !.rejects = R]
            : R \in SubsetsUpTo(PresetWrites, MaxFaults - Cardinality(A))}
         : A \in SubsetsUpTo(Keys(BASE_PRESET), MaxFaults)}

\* A record whose every field but the selector holds a typed-in value.
Scrambled ==
  [k \in Fields |->
     IF k = "preset" THEN Defaults[k]
     ELSE CHOOSE v \in EditChoices(k) : v # Defaults[k]]

InitFault ==
  /\ host \in HostProfiles
  /\ settings \in {_apply_preset_to_settings(Defaults, Defaults["preset"]).s, Scrambled}
  /\ edits = 0
  /\ last = Op("register", None, "DONE")
  /\ NewDocument

\* One application of a preset to the record drawn.
ApplyOnce(p) == last.op = "register" /\ _preset_update(p)

NextFault == \E p \in PresetIds : ApplyOnce(p)

SpecFault == InitFault /\ [][NextFault]_vars

(***************************************************************************)
(* The configurator on a host version whose solver records lack some       *)
(* fields or reject the writes to some: the rig created, a preset chosen,  *)
(* the rig updated.                                                        *)
(***************************************************************************)
\* The settings a preset leaves on a host that accepts every write.
PresetSettings(p) ==
  [k \in Fields |->
     IF k = "preset" THEN p
     ELSE IF k \in Keys(OverridesOf(p)) THEN Get(OverridesOf(p), k)
     ELSE IF k \in Keys(BASE_PRESET) THEN Get(BASE_PRESET, k)
     ELSE Defaults[k]]

\* The writes the configurator attempts under some preset.
ConfigWrites ==
  UNION {ItemSet(DomainWrites(PresetSettings(p))) \cup ItemSet(FlowWrites(PresetSettings(p)))
         : p \in PresetIds}
  \cup {<<"flow_type", "FIRE">>, <<"flow_type", "SMOKE">>,
        <<"fluid_type", "DOMAIN">>, <<"fluid_type", "FLOW">>}

ConfigFields == (DOMAIN DomainFields) \cup (DOMAIN FlowFields)

\* What one host restriction rejects: every write to one field, or the flow
\* type FIRE alone.
RejectUnits ==
  {{w \in ConfigWrites : w[1] = f} : f \in ConfigFields \cup {"fluid_type"}}
  \cup {{<<"flow_type", "FIRE">>}}

ConfigProfiles ==
  UNION {{[NoFaults EXCEPT !.cfgAbsent = A, !.cfgRejects = UNION U]
            : U \in SubsetsUpTo(RejectUnits, MaxFaults - Cardinality(A))}
         : A \in SubsetsUpTo(ConfigFields, MaxFaults)}

InitConfig ==
  /\ host \in ConfigProfiles
  /\ settings = Registered
  /\ edits = 0
  /\ last = Op("register", None, "DONE")
  /\ NewDocument

CreateOnce(okDom, okEmi) == objects = << >> /\ FIREVFX_OT_create_rig(okDom, okEmi)

PresetOnce(p) == last.op = "create_rig" /\ _preset_update(p)

UpdateOnce(okDom, okEmi) == last.op = "preset" /\ FIREVFX_OT_update_rig(okDom, okEmi)

NextConfig ==
  \/ \E okDom, okEmi \in BOOLEAN : CreateOnce(okDom, okEmi)
  \/ \E p \in PresetIds : PresetOnce(p)
  \/ \E okDom, okEmi \in BOOLEAN : UpdateOnce(okDom, okEmi)

SpecConfig == InitConfig /\ [][NextConfig]_vars

(***************************************************************************)
(* Color-ramp reconciliation on its own: any ramp the host may hold.       *)
(***************************************************************************)
StopChoices == {Stop(pos, col) : pos \in {0, 500, 1000}, col \in {Black, White}}

\* The ramps of n stops, in the order of their positions as the host keeps them.
RECURSIVE RampsOfLen(_)
RampsOfLen(n) ==
  IF n = 0 THEN {<< >>}
  ELSE UNION {{Append(r, st) : st \in {c \in StopChoices :
                                           Len(r) = 0 \/ r[Len(r)].position <= c.position}}
              : r \in RampsOfLen(n - 1)}

PriorRamps == UNION {RampsOfLen(n) : n \in 0..MaxStops}

InitRamp ==
  /\ host = NoFaults
  /\ settings = Registered
  /\ edits = 0
  /\ last = Op("register", None, "DONE")
  /\ objects = << >>
  /\ collections = << >>
  /\ materials = << >>
  /\ active = NoObject
  /\ selected = {}
  /\ baked = FALSE
  /\ ramp \in PriorRamps

\* The reconciliation to the three stops of a preset's flame colours.
Reconcile(p) ==
  /\ ramp' = _set_color_ramp_elements(ramp, FlameRamp(_apply_preset_to_settings(settings, p).s))
  /\ last' = Op("ramp", Len(ramp), "DONE")
  /\ UNCHANGED <<settings, host, edits, doc>>

NextRamp == \E p \in PresetIds : Reconcile(p)

SpecRamp == InitRamp /\ [][NextRamp]_vars

(***************************************************************************)
(* Preset application: what a preset leaves in the record.                 *)
(***************************************************************************)
ManagedFields == Keys(BASE_PRESET) \cup UNION {Keys(PRESET_OVERRIDES[p]) : p \in PresetIds}

\* base merged with the preset's delta
Merged(p) ==
  [k \in Keys(BASE_PRESET) \cup Keys(OverridesOf(p)) |->
     IF k \in Keys(OverridesOf(p)) THEN Get(OverridesOf(p), k) ELSE Get(BASE_PRESET, k)]

\* C1: after a preset P is applied and no write failed, each field named in
\* BASE_PRESET holds P's override where the delta defines one and the base
\* value otherwise; CANDLE gives resolution_max 80, vorticity 0.25,
\* flame_strength 18.0, use_dissolve_smoke True; EXPLOSION gives resolution_max
\* 176, flame_strength 120.0, smoke_density 6.0.
C1_PresetValues ==
  (last.op = "preset" /\ host = NoFaults) =>
    /\ last.result = "DONE"
    /\ \A k \in Keys(BASE_PRESET) : settings[k] = Merged(last.arg)[k]
    /\ last.arg = "CANDLE" =>
         /\ settings["resolution_max"] = 80
         /\ settings["vorticity"] = 250
         /\ settings["flame_strength"] = 18000
         /\ settings["use_dissolve_smoke"] = TRUE
    /\ last.arg = "EXPLOSION" =>
         /\ settings["resolution_max"] = 176
         /\ settings["flame_strength"] = 120000
         /\ settings["smoke_density"] = 6000

\* C1's case: EXPLOSION applied over a record that a manual edit had changed.
C1_Witness ==
  /\ last.op = "preset" /\ last.arg = "EXPLOSION" /\ edits > 0
  /\ settings["smoke_density"] = 6000

\* C2: applying a preset leaves every field absent from base and override
\* (preset, domain_object_name, emitter_object_name, ui_show_advanced,
\* apply_scale_on_update, cache_directory) at the value it had when the
\* application began.
C2_UnmanagedKept ==
  [][ last'.op = "preset" =>
        /\ Fields \ ManagedFields =
             {"preset", "domain_object_name", "emitter_object_name",
              "ui_show_advanced", "apply_scale_on_update", "cache_directory"}
        /\ settings'["preset"] = last'.arg
        /\ \A k \in Fields \ (ManagedFields \cup {"preset"}) : settings'[k] = settings[k]
    ]_vars

\* C2's case: a preset applied to a record whose unmanaged fields had been edited.
C2_Witness ==
  /\ last.op = "preset"
  /\ \/ settings["ui_show_advanced"] # Defaults["ui_show_advanced"]
     \/ settings["cache_directory"] # Defaults["cache_directory"]

\* C3: applying the same preset a second time in a row changes nothing.
C3_Idempotent ==
  [][ (last.op = "preset" /\ last'.op = "preset" /\ last'.arg = last.arg)
        => settings' = settings ]_vars

\* C3's case: a preset applied to a record that a manual edit had taken away
\* from the previously applied preset (so a second application can follow).
C3_Witness ==
  /\ last.op = "preset" /\ edits > 0
  /\ settings["preset"] # Defaults["preset"]

\* What the host does with the write of v to field k.
WriteFails(k, v) == ~HasAttr(k) \/ ~Accepts(k, v)

\* C4: each failing write is skipped on its own: a field holds the override if
\* that write succeeded, else the base value if that write succeeded, else its
\* prior value, and the application completes without raising.
C4_FaultTolerant ==
  [][ last'.op = "preset" =>
        LET p == last'.arg
            ov == OverridesOf(p)
            pre == [settings EXCEPT !["preset"] = p]
        IN  /\ last'.result = "DONE"
            /\ \A k \in Fields :
                 settings'[k] =
                   IF k \in Keys(ov) /\ ~WriteFails(k, Get(ov, k)) THEN Get(ov, k)
                   ELSE IF k \in Keys(BASE_PRESET) /\ ~WriteFails(k, Get(BASE_PRESET, k))
                        THEN Get(BASE_PRESET, k)
                   ELSE pre[k]
    ]_vars

\* C4's case: a preset applied on a host where one of its writes failed and
\* the field kept an older value while a later field was still written.
C4_Witness ==
  /\ last.op = "preset" /\ last.result = "DONE"
  /\ \E k \in DOMAIN Merged(last.arg) : settings[k] # Merged(last.arg)[k]
  /\ settings["flame_color_high"] = Merged(last.arg)["flame_color_high"]

(***************************************************************************)
(* Rig creation and update.                                                *)
(***************************************************************************)
\* The objects of a given name, the collections of a given name and the
\* objects that are members of a given collection.
ObjectsNamed(objs, name) == {i \in DOMAIN objs : objs[i].name = name}

CollectionsNamed(cols, name) == {i \in DOMAIN cols : cols[i].name = name}

MembersOf(objs, colname) == {i \in DOMAIN objs : colname \in objs[i].users_collection}

\* C5: after create_rig, however often it has run before, there is exactly one
\* object named FireVFX_Domain, exactly one named FireVFX_Emitter, exactly one
\* collection named FireVFX, and that collection has two members.
C5_NoDuplicates ==
  last.op = "create_rig" =>
    /\ last.result = "FINISHED"
    /\ Cardinality(ObjectsNamed(objects, DOMAIN_NAME)) = 1
    /\ Cardinality(ObjectsNamed(objects, EMITTER_NAME)) = 1
    /\ Cardinality(CollectionsNamed(collections, COLLECTION_NAME)) = 1
    /\ Cardinality(MembersOf(objects, COLLECTION_NAME)) = 2
    /\ \A i \in ObjectsNamed(objects, DOMAIN_NAME) \cup ObjectsNamed(objects, EMITTER_NAME) :
         objects[i].users_collection = {COLLECTION_NAME}

\* C5's case: create_rig run on a document that already held both rig objects,
\* so that it added no primitive.
C5_Witness ==
  /\ last.op = "create_rig"
  /\ \A i \in DOMAIN last.calls : last.calls[i][1] = "object.transform_apply"
  /\ Len(objects) = 2

\* A stored name that is empty or names no object of the document.
Unresolved(objs, name) == name = "" \/ ObjectsNamed(objs, name) = {}

NamesOf(objs) == [i \in DOMAIN objs |-> objs[i].name]

\* C6: update_rig never adds or removes an object; and invoked while the stored
\* domain or emitter name is empty or names no object, it reports a warning,
\* returns CANCELLED and changes nothing in the document or the settings.
C6_UpdateWithoutRig ==
  [][ last'.op = "update_rig" =>
        /\ NamesOf(objects') = NamesOf(objects)
        /\ (\/ Unresolved(objects, settings["domain_object_name"])
            \/ Unresolved(objects, settings["emitter_object_name"])) =>
             /\ last'.result = "CANCELLED"
             /\ last'.report = "WARNING"
             /\ last'.calls = << >>
             /\ doc' = doc
             /\ settings' = settings
    ]_vars

\* C6's case: update_rig cancelled on a document whose rig lost an object
\* after its names were stored.
C6_Witness ==
  /\ last.op = "update_rig" /\ last.result = "CANCELLED"
  /\ settings["domain_object_name"] = DOMAIN_NAME
  /\ settings["emitter_object_name"] = EMITTER_NAME
  /\ Len(objects) = 1

(***************************************************************************)
(* Baking.                                                                 *)
(***************************************************************************)
BakeCall(ok) == Call("fluid.bake_all", ok)

FreeCall(ok) == Call("fluid.free_all", ok)

\* C7: bake_all without a resolvable domain reports a warning, returns
\* CANCELLED and invokes neither bake nor free; with one it bakes, frees only
\* after that bake failed, bakes a second time only after that free, and does
\* neither more than once; it returns FINISHED iff a bake went through, and
\* otherwise reports an error and returns CANCELLED.
C7_BakeRetry ==
  last.op = "bake_all" =>
    LET c == last.calls
        bakes == {i \in DOMAIN c : c[i][1] = "fluid.bake_all"}
        frees == {i \in DOMAIN c : c[i][1] = "fluid.free_all"}
    IN  /\ (c = << >>) <=> Unresolved(objects, settings["domain_object_name"])
        /\ c = << >> => last.result = "CANCELLED" /\ last.report = "WARNING"
        /\ c # << >> => c[1][1] = "fluid.bake_all"
        /\ bakes \cup frees = DOMAIN c
        /\ Cardinality(bakes) <= 2 /\ Cardinality(frees) <= 1
        /\ \A i \in frees : i > 1 /\ c[i - 1] = BakeCall(FALSE)
        /\ \A i \in bakes : i > 1 => c[i - 1] = FreeCall(TRUE)
        /\ (c # << >> /\ c[1] = BakeCall(FALSE)) => 2 \in frees
        /\ \A i \in DOMAIN c : c[i] = FreeCall(TRUE) => i + 1 \in bakes
        /\ last.result = "FINISHED" <=> \E i \in DOMAIN c : c[i] = BakeCall(TRUE)
        /\ last.result = "FINISHED" => last.report = "NONE" /\ baked
        /\ (c # << >> /\ last.result # "FINISHED") =>
             last.result = "CANCELLED" /\ last.report = "ERROR"

\* C7's case: the first bake failed, the free went through and the second
\* bake succeeded.
C7_Witness ==
  /\ last.op = "bake_all" /\ last.result = "FINISHED"
  /\ last.calls = <<BakeCall(FALSE), FreeCall(TRUE), BakeCall(TRUE)>>

(***************************************************************************)
(* Color ramp.                                                             *)
(***************************************************************************)
\* C8: reconciling a ramp with three desired stops leaves exactly three stops,
\* whatever number of stops the ramp had.
C8_ThreeStops ==
  last.op = "ramp" =>
    /\ Len(ramp) = 3
    /\ \A i \in 1..3 : ramp[i].position = <<0, 250, 1000>>[i]

\* C8's case: a ramp of five stops reconciled.
C8_Witness == last.op = "ramp" /\ last.arg = 5 /\ Len(ramp) = 3

(***************************************************************************)
(* Shader graph and fluid modifiers across rebuilds.                       *)
(***************************************************************************)
\* A step in which create_rig or update_rig ran to its end, and a state left
\* by one.
Rebuilt(op) == op.op \in {"create_rig", "update_rig"} /\ op.result = "FINISHED"

\* The material slots of the object of a given name, none when there is no
\* such object.
SlotsOf(objs, name) ==
  IF ObjectsNamed(objs, name) = {} THEN << >> ELSE objs[ObjectsGet(objs, name)].materials

\* C9: a rebuild right after a rebuild, the settings unchanged, leaves the
\* material's graph as it was: the same nodes, links and parameter values; and
\* any rebuild leaves the domain as many slots as it had, one if it had none,
\* with the material in the first and the others untouched.
C9_RebuildIdempotent ==
  [][ Rebuilt(last') =>
        LET before == SlotsOf(objects, DOMAIN_NAME)
            after == SlotsOf(objects', DOMAIN_NAME)
            graph == materials'[MATERIAL_NAME]
        IN  /\ Len(after) = IF Len(before) = 0 THEN 1 ELSE Len(before)
            /\ after[1] = MATERIAL_NAME
            /\ \A i \in 2..Len(before) : after[i] = before[i]
            /\ Rebuilt(last) =>
                 /\ Len(graph.nodes) = Len(materials[MATERIAL_NAME].nodes)
                 /\ Len(graph.links) = Len(materials[MATERIAL_NAME].links)
                 /\ materials' = materials
    ]_vars

\* C9's case: the rig rebuilt again after a slot was added to the domain's
\* mesh: two slots, the material in the first, the graph of seven nodes and
\* seven links.
C9_Witness ==
  /\ last.op = "update_rig" /\ last.result = "FINISHED"
  /\ Len(SlotsOf(objects, DOMAIN_NAME)) = 2
  /\ SlotsOf(objects, DOMAIN_NAME)[1] = MATERIAL_NAME
  /\ Len(materials[MATERIAL_NAME].nodes) = 7
  /\ Len(materials[MATERIAL_NAME].links) = 7

\* The fluid modifiers of the object of a given name.
FluidModifiers(objs, name) ==
  LET mods == objs[ObjectsGet(objs, name)].modifiers
  IN  {i \in DOMAIN mods : mods[i].type = "FLUID"}

OtherModifiers(objs, name) ==
  IF ObjectsNamed(objs, name) = {} THEN << >>
  ELSE SelectSeq(objs[ObjectsGet(objs, name)].modifiers, LAMBDA m : m.type # "FLUID")

HadFluid(objs, name) == ObjectsNamed(objs, name) # {} /\ FluidModifiers(objs, name) # {}

\* C10: after create_rig or update_rig each rig object carries exactly one
\* fluid modifier, the domain's of type DOMAIN and the emitter's of type FLOW;
\* the object's other modifiers are kept, and the stack grows by one modifier
\* only when the object had no fluid modifier.
C10_OneFluidModifier ==
  [][ Rebuilt(last') =>
        \A rig \in {<<DOMAIN_NAME, "DOMAIN">>, <<EMITTER_NAME, "FLOW">>} :
          LET mods == objects'[ObjectsGet(objects', rig[1])].modifiers
          IN  /\ Cardinality(FluidModifiers(objects', rig[1])) = 1
              /\ \A i \in FluidModifiers(objects', rig[1]) : mods[i].fluid_type = rig[2]
              /\ OtherModifiers(objects', rig[1]) = OtherModifiers(objects, rig[1])
              /\ HadFluid(objects, rig[1]) =>
                   Len(mods) = Len(objects[ObjectsGet(objects, rig[1])].modifiers)
    ]_vars

\* C10's case: the rig updated after another modifier was put on the domain:
\* two modifiers, one of them the fluid modifier.
C10_Witness ==
  /\ last.op = "update_rig" /\ last.result = "FINISHED"
  /\ Len(objects[ObjectsGet(objects, DOMAIN_NAME)].modifiers) = 2
  /\ Cardinality(FluidModifiers(objects, DOMAIN_NAME)) = 1

(***************************************************************************)
(* update_rig against create_rig.                                          *)
(***************************************************************************)
\* The names create_rig stores are the stored ones, and both name an object.
RigStored ==
  /\ settings["domain_object_name"] = DOMAIN_NAME
  /\ settings["emitter_object_name"] = EMITTER_NAME
  /\ ~Unresolved(objects, DOMAIN_NAME)
  /\ ~Unresolved(objects, EMITTER_NAME)

\* What create_rig, from "Apply sizes" onward, would leave of the present
\* state, for each outcome of the two scale freezes.
CreateOutcomes ==
  {CreateFromSizes(objects, ObjectsGet(objects, DOMAIN_NAME), ObjectsGet(objects, EMITTER_NAME),
                   settings, selected, active, materials, okDom, okEmi) :
     okDom, okEmi \in BOOLEAN}

\* The objects with the display types of other objects of the same indices.
WithDisplayOf(objs, others) ==
  [i \in DOMAIN objs |-> [objs[i] EXCEPT !.display_type = others[i].display_type]]

\* C11 as stated: a finished update_rig on the rig create_rig stored leaves
\* the objects, the materials and the settings as create_rig, from "Apply
\* sizes" onward, would leave them, display types and stored names included.
C11_UpdateAsCreate ==
  [][ (last'.op = "update_rig" /\ last'.result = "FINISHED" /\ RigStored) =>
        \E c \in CreateOutcomes :
          /\ last'.calls = c.calls
          /\ objects' = c.objects
          /\ materials' = c.materials
          /\ settings' = c.settings
    ]_vars

\* C11 amended: a finished update_rig on the rig create_rig stored invokes the
\* same host operators and leaves the same objects, materials, settings and
\* selection as create_rig from "Apply sizes" onward, except that it leaves
\* every object's display type as it was.
C11_UpdateAsCreateButDisplay ==
  [][ (last'.op = "update_rig" /\ last'.result = "FINISHED" /\ RigStored) =>
        \E c \in CreateOutcomes :
          /\ last'.calls = c.calls
          /\ objects' = WithDisplayOf(c.objects, objects)
          /\ materials' = c.materials
          /\ settings' = c.settings
          /\ selected' = c.selected
          /\ active' = c.active
    ]_vars

\* C11's case: the rig updated, under another preset than it was created
\* with, after the domain's display was changed by hand.
C11_Witness ==
  /\ last.op = "update_rig" /\ last.result = "FINISHED"
  /\ RigStored
  /\ objects[ObjectsGet(objects, DOMAIN_NAME)].display_type = "TEXTURED"
  /\ settings["preset"] # Defaults["preset"]

(***************************************************************************)
(* The configurator on a restricted host.                                  *)
(***************************************************************************)
\* The fluid modifier of the object of a given name.
FluidOf(objs, name) ==
  LET mods == objs[ObjectsGet(objs, name)].modifiers
  IN  mods[FluidModifierIndex(mods)]

\* The fluid type and the solver record the configurator finds on an object:
\* those of its fluid modifier, or of a new modifier when it has none.
FoundModifier(objs, name) ==
  IF HadFluid(objs, name) THEN FluidOf(objs, name) ELSE NewFluidModifier

\* The solver record the configurator writes into: the one found when the
\* modifier already is of the type, the host's new one otherwise.
FoundSolver(objs, name, type, key, fields) ==
  IF FoundModifier(objs, name).fluid_type = type
  THEN FoundModifier(objs, name)[key]
  ELSE HostRecord(fields)

\* A solver record after a run of writes each of which is made unless the
\* host rejects it, the other fields as found.
Written(found, writes) ==
  [f \in DOMAIN found |->
     IF f \in Keys(writes) /\ <<f, Get(writes, f)>> \notin host.cfgRejects
     THEN Get(writes, f)
     ELSE found[f]]

\* The flow type after FIRE was tried and, FIRE rejected, SMOKE.
FlowTypeTried(found) ==
  IF <<"flow_type", "FIRE">> \notin host.cfgRejects THEN "FIRE"
  ELSE IF <<"flow_type", "SMOKE">> \notin host.cfgRejects THEN "SMOKE"
  ELSE found

\* C12: whatever solver fields the host lacks or rejects, create_rig and
\* update_rig run to their end; every field the solver record has holds the
\* value from the settings unless that one write was rejected, in which case
\* it is as found; the flow type is FIRE unless FIRE is rejected, then SMOKE
\* unless SMOKE is rejected; and the steps after the configurator are done.
C12_ConfiguratorDegrades ==
  [][ last'.op \in {"create_rig", "update_rig"} =>
        LET dm == FluidOf(objects', DOMAIN_NAME)
            fm == FluidOf(objects', EMITTER_NAME)
            ds == FoundSolver(objects, DOMAIN_NAME, "DOMAIN", "domain_settings", DomainFields)
            fs == FoundSolver(objects, EMITTER_NAME, "FLOW", "flow_settings", FlowFields)
        IN  /\ last'.result = "FINISHED"
            /\ dm.fluid_type = IF <<"fluid_type", "DOMAIN">> \in host.cfgRejects
                               THEN FoundModifier(objects, DOMAIN_NAME).fluid_type ELSE "DOMAIN"
            /\ fm.fluid_type = IF <<"fluid_type", "FLOW">> \in host.cfgRejects
                               THEN FoundModifier(objects, EMITTER_NAME).fluid_type ELSE "FLOW"
            /\ dm.fluid_type = "DOMAIN" =>
                 /\ DOMAIN dm.domain_settings = (DOMAIN DomainFields) \ host.cfgAbsent
                 /\ dm.domain_settings = Written(ds, DomainWrites(settings))
            /\ fm.fluid_type = "FLOW" =>
                 /\ DOMAIN fm.flow_settings = (DOMAIN FlowFields) \ host.cfgAbsent
                 /\ \A f \in DOMAIN fm.flow_settings :
                      fm.flow_settings[f] =
                        IF f = "flow_type" THEN FlowTypeTried(fs[f])
                        ELSE Written(fs, FlowWrites(settings))[f]
            /\ SlotsOf(objects', DOMAIN_NAME) = <<MATERIAL_NAME>>
            /\ MATERIAL_NAME \in DOMAIN materials'
    ]_vars

\* C12's case: the rig updated on a host that rejects the flow type FIRE: the
\* emitter's flow type is SMOKE and the writes after it were made.
C12_Witness ==
  /\ last.op = "update_rig" /\ last.result = "FINISHED"
  /\ <<"flow_type", "FIRE">> \in host.cfgRejects
  /\ FluidOf(objects, EMITTER_NAME).flow_settings["flow_type"] = "SMOKE"
  /\ FluidOf(objects, EMITTER_NAME).flow_settings["velocity_factor"] = settings["velocity_factor"]

(***************************************************************************)
(* The names create_rig stores.                                            *)
(***************************************************************************)
\* C13: after create_rig the stored names are FireVFX_Domain and
\* FireVFX_Emitter and each names an object; and an update_rig or a bake_all
\* that comes right after a create_rig does not cancel with the warning that
\* no rig was found.
C13_NamesStored ==
  [][ /\ last'.op = "create_rig" =>
           /\ last'.result = "FINISHED"
           /\ settings'["domain_object_name"] = DOMAIN_NAME
           /\ settings'["emitter_object_name"] = EMITTER_NAME
           /\ ~Unresolved(objects', settings'["domain_object_name"])
           /\ ~Unresolved(objects', settings'["emitter_object_name"])
      /\ (last.op = "create_rig" /\ last'.op \in {"update_rig", "bake_all"}) =>
           /\ last'.report # "WARNING"
           /\ last'.op = "update_rig" => last'.result = "FINISHED"
           /\ last'.op = "bake_all" => last'.calls # << >>
    ]_vars

\* C13's case: update_rig finished on a document in which nothing was deleted
\* or retyped since create_rig stored the names.
C13_Witness ==
  /\ last.op = "update_rig" /\ last.result = "FINISHED"
  /\ edits = 0
  /\ settings["domain_object_name"] = DOMAIN_NAME
  /\ settings["emitter_object_name"] = EMITTER_NAME

(***************************************************************************)
(* What a preset's result depends on.                                      *)
(***************************************************************************)
\* C14: the keys of every preset's delta are keys of BASE_PRESET; a preset
\* step changes no field but those and the selector; and it leaves in each of
\* those fields the value the same preset leaves there in a record at its
\* defaults and in a record edited in every field, whatever was selected or
\* edited before.
C14_DependsOnPresetOnly ==
  [][ last'.op = "preset" =>
        /\ \A p \in PresetIds : Keys(OverridesOf(p)) \subseteq Keys(BASE_PRESET)
        /\ {k \in Fields : settings'[k] # settings[k]} \subseteq Keys(BASE_PRESET) \cup {"preset"}
        /\ \E fromDefaults \in {_apply_preset_to_settings(Defaults, last'.arg).s} :
           \E fromEdited \in {_apply_preset_to_settings(Scrambled, last'.arg).s} :
             \A k \in Keys(BASE_PRESET) :
               settings'[k] = fromDefaults[k] /\ settings'[k] = fromEdited[k]
    ]_vars

\* C14's case: CANDLE chosen after the default preset had been applied and a
\* field edited by hand.
C14_Witness ==
  /\ last.op = "preset" /\ last.arg = "CANDLE"
  /\ edits > 0
  /\ \A k \in Keys(BASE_PRESET) : settings[k] = Merged("CANDLE")[k]

====
